---- MODULE Spec2Model ----
(***************************************************************************)
(* Model of docker/crawl4ai/service.py: the /scrape handler (scrape_url)   *)
(* and the /batch handler (batch_scrape) with its per-URL coroutine        *)
(* scrape_one, the asyncio.Semaphore that admits them and the              *)
(* AsyncWebCrawler session both handlers open with "async with".           *)
(*                                                                         *)
(* In Spec and LiveSpec one behaviour is one validated request; ConcSpec   *)
(* runs several requests in one process.  The Page Fetch Client            *)
(* (crawler.arun) and the session's __aenter__/__aexit__ are the           *)
(* environment: each call returns or raises, chosen when it completes.     *)
(* Every action is one segment of a coroutine between two awaits.          *)
(***************************************************************************)
EXTENDS Integers, Sequences, FiniteSets, TLC

\* ---------------------------------------------------------------- bounds
\* longest urls list of a batch request
MaxUrls == 4

\* ------------------------------------------------------------- constants
\* int(environ.get('CRAWL4AI_MAX_CONCURRENT', '3')): the default
DefaultMaxConcurrent == 3

\* values the environment variable is given in the model: the default,
\* smaller limits, zero, and a negative number (int() accepts it).
ConcurrencyValues == {-1, 0, 1, 2, DefaultMaxConcurrent}

\* Python's None, for the optional str fields
None == "<None>"

\* str(e) of the exceptions the environment raises: an exception built
\* without arguments (asyncio.TimeoutError(), Exception()) has str(e) = ""
ExcMessages == {"", "boom"}

\* a CrawlResult.error_message the client reports with success=False
ClientError == "net::ERR_FAILED"

\* ------------------------------------------------------------ the values
\* the i-th URL of a request; the URLs of one request are distinct, so a
\* page's content names the position it was fetched for
Url(i) == "u" \o ToString(i)

\* result.markdown is None, a str, or a MarkdownGenerationResult object
MdNone == [type |-> "none", text |-> None]
MdStr(s) == [type |-> "str", text |-> s]
MdObj(s) == [type |-> "obj", text |-> s]

\* result.metadata is None or a dict that may hold 'title'
NoMetadata == [present |-> FALSE, title |-> None]
Metadata(t) == [present |-> TRUE, title |-> t]

\* class ScrapeResponse
ScrapeResponse(s, md, h, t, e) ==
    [success |-> s, markdown |-> md, html |-> h, title |-> t, error |-> e]

\* what one call of crawler.arun(url) can do: return a CrawlResult or raise
Returned(s, md, h, meta, em) ==
    [raises |-> FALSE, msg |-> None, success |-> s, markdown |-> md,
     html |-> h, metadata |-> meta, error_message |-> em]

Raised(m) ==
    [raises |-> TRUE, msg |-> m, success |-> FALSE, markdown |-> MdNone,
     html |-> None, metadata |-> NoMetadata, error_message |-> None]

ClientOutcomes(u) ==
    { Returned(TRUE, MdStr("md:" \o u), "html:" \o u, Metadata("t:" \o u), None),
      Returned(TRUE, MdObj("md:" \o u), "html:" \o u, NoMetadata, None),
      Returned(FALSE, MdNone, "html:" \o u, NoMetadata, ClientError),
      Returned(FALSE, MdNone, None, NoMetadata, None) }
    \cup { Raised(m) : m \in ExcMessages }

\* the slot of a task or a fetch that has produced nothing yet
NoResult == [raises |-> FALSE, msg |-> None, success |-> FALSE,
             markdown |-> MdNone, html |-> None, metadata |-> NoMetadata,
             error_message |-> "<pending>"]

NoOutcome == [isexc |-> FALSE, msg |-> None,
              resp |-> ScrapeResponse(FALSE, None, None, None, "<pending>")]

\* ------------------------------------------------------- pure functions
\* def _markdown_str(md)
markdown_str(md) ==
    IF md.type = "none" THEN None
    ELSE md.text

\* def _title_from_result(result): (metadata or {}).get("title")
title_from_result(result) ==
    IF result.metadata.present THEN result.metadata.title ELSE None

\* (variant: the message is forwarded as it is, without a default)
OrDefaultKeep(x, d) == x

\* Python's  x or default  on an optional str: None and "" are falsy
OrDefault(x, d) == IF x = None \/ x = "" THEN d ELSE x

\* the response built from a CrawlResult: lines 166-185 and 236-255
FromResult(result) ==
    IF ~result.success
    THEN ScrapeResponse(FALSE, None, None, None,
                        OrDefault(result.error_message, "Scrape failed"))
    ELSE ScrapeResponse(TRUE, markdown_str(result.markdown), result.html,
                        title_from_result(result), None)

\* except Exception as e: ScrapeResponse(success=False, error=str(e))
FromException(m) == ScrapeResponse(FALSE, None, None, None, m)

\* the value scrape_one returns for what its arun call did: the try/except
\* of lines 229-259 turns a raised Exception into a response, so the
\* coroutine itself never raises
scrape_one(out) ==
    IF out.raises
    THEN [isexc |-> FALSE, msg |-> None, resp |-> FromException(out.msg)]
    ELSE [isexc |-> FALSE, msg |-> None, resp |-> FromResult(out)]

\* lines 267-275: one entry of gather's results becomes one response
Collected(r) == IF r.isexc THEN FromException(r.msg) ELSE r.resp

\* (variant: the except reports a fixed text instead of str(e))
SessionFailureGeneric(resp, us, m) ==
    resp \o [i \in 1..Len(us) |-> FromException("Batch scrape failed")]

\* lines 276-279: the except of the batch appends one failure per URL
SessionFailure(resp, us, m) == resp \o [i \in 1..Len(us) |-> FromException(m)]

\* ---------------------------------------------------- asyncio.Semaphore
\* (CPython 3.11+) _value and the deque _waiters.  A waiter whose future
\* was set stays in the deque until its task runs again; st tells the
\* two kinds of waiters apart ("waiting" / "admitted").

\* (variant: a semaphore that is only locked below zero)
LockedBelowZero(sem) == sem.value < 0 \/ sem.waiters # <<>>

\* locked(): no slot is free, or a waiter is queued
Locked(sem) == sem.value = 0 \/ sem.waiters # <<>>

\* (variant: the waiter that came last is woken first)
LastWaiting(sem, st) ==
    LET ks == {k \in 1..Len(sem.waiters) : st[sem.waiters[k]] = "waiting"}
    IN  IF ks = {} THEN 0 ELSE CHOOSE k \in ks : \A l \in ks : k >= l

\* position in the deque of the first waiter whose future is not done, or 0
FirstWaiting(sem, st) ==
    LET ks == {k \in 1..Len(sem.waiters) : st[sem.waiters[k]] = "waiting"}
    IN  IF ks = {} THEN 0 ELSE CHOOSE k \in ks : \A l \in ks : k <= l

\* _wake_up_next: hand one slot to the first waiter that is not done
WakeUpNext(sem, st) ==
    LET k == FirstWaiting(sem, st)
    IN  IF k = 0 THEN [sem |-> sem, st |-> st, woke |-> FALSE]
        ELSE [sem |-> [sem EXCEPT !.value = @ - 1],
              st |-> [st EXCEPT ![sem.waiters[k]] = "admitted"],
              woke |-> TRUE]

\* (variant: release() counts the slot but wakes nobody)
ReleaseNoWake(sem, st) ==
    [sem |-> [sem EXCEPT !.value = @ + 1], st |-> st, woke |-> FALSE]

\* (variant: release() wakes the next waiter but does not count the slot)
ReleaseNoCount(sem, st) == WakeUpNext(sem, st)

\* release(): _value += 1, then _wake_up_next()
Release(sem, st) == WakeUpNext([sem EXCEPT !.value = @ + 1], st)

\* the tail of acquire() of a woken waiter:
\* while self._value > 0: if not self._wake_up_next(): break
RECURSIVE WakeWhileFree(_, _)
WakeWhileFree(sem, st) ==
    IF sem.value > 0
    THEN LET w == WakeUpNext(sem, st)
         IN  IF w.woke THEN WakeWhileFree(w.sem, w.st) ELSE w
    ELSE [sem |-> sem, st |-> st, woke |-> FALSE]

Remove(q, i) == SelectSeq(q, LAMBDA j : j # i)

\* ------------------------------------------------------------- the state
VARIABLES
    kind,       \* "batch" (POST /batch) or "scrape" (POST /scrape)
    urls,       \* request.urls, or <<request.url>>
    MAX_CONCURRENT_SCRAPES,
    pc,         \* where the handler is
    raised,     \* str(e) of the exception that left the handler, or None
    caught,     \* str(e) of the exception the handler's except caught
    crawler,    \* the session: "none", "open", "closed", "failed"
    entered,    \* number of __aenter__ calls that returned
    exited,     \* number of __aexit__ calls
    semaphore,
    status,     \* per task: new, pending, waiting, admitted, inflight, done
    fetched,    \* per task: what its arun call did
    results,    \* per task: the slot gather keeps for its return value
    calls,      \* number of crawler.arun calls made
    overtook,   \* some task finished before a task earlier in urls
    responses,  \* the list (or the one response) the handler returns
    origin,     \* per response: appended by the "task" loop or the "session" except
    handlers,   \* the handler invocations of a process that serves several
                \* requests at once, each with its own local variables
    sessions    \* the AsyncWebCrawler objects those invocations constructed

\* the state of the one request of Spec
one == <<kind, urls, MAX_CONCURRENT_SCRAPES, pc, raised, caught, crawler,
         entered, exited, semaphore, status, fetched, results, calls,
         overtook, responses, origin>>

\* the state of the concurrent requests of ConcSpec
others == <<handlers, sessions>>

vars == <<one, others>>

N == Len(urls)
Tasks == 1..N

Init ==
    /\ kind \in {"batch", "scrape"}
    /\ \E n \in 0..MaxUrls :
          /\ kind = "scrape" => n = 1
          /\ urls = [i \in 1..n |-> Url(i)]
    /\ MAX_CONCURRENT_SCRAPES \in ConcurrencyValues
    /\ handlers = <<>>
    /\ sessions = <<>>
    /\ pc = "start"
    /\ raised = None
    /\ caught = None
    /\ crawler = "none"
    /\ entered = 0
    /\ exited = 0
    /\ semaphore = [value |-> 0, waiters |-> <<>>]
    /\ status = [i \in Tasks |-> "new"]
    /\ fetched = [i \in Tasks |-> NoResult]
    /\ results = [i \in Tasks |-> NoOutcome]
    /\ calls = 0
    /\ overtook = FALSE
    /\ responses = <<>>
    /\ origin = <<>>

request == <<kind, urls, MAX_CONCURRENT_SCRAPES>>
session == <<crawler, entered, exited>>
tasks == <<semaphore, status, fetched, results, calls, overtook>>
output == <<responses, origin>>

\* ------------------------------------------------------ POST /batch
\* (variant: the check for the empty list is missing)
NoUrlsNever(us) == FALSE

\* line 203: if not request.urls
NoUrls(us) == us = <<>>

\* (variant: results are kept in the order the tasks finish)
StoreByCompletion(res, st, i, r) ==
    [res EXCEPT ![Cardinality({j \in DOMAIN st : st[j] = "done"}) + 1] = r]

\* line 265: gather(*tasks, return_exceptions=True) keeps the value of the
\* i-th awaitable in the i-th place of its result
StoreResult(res, st, i, r) == [res EXCEPT ![i] = r]

\* (variant: the batch stops waiting at the first failed outcome)
GatherFirstFailure(st, res) ==
    \/ \A i \in DOMAIN st : st[i] = "done"
    \/ \E i \in DOMAIN st : st[i] = "done" /\ ~res[i].resp.success

\* (variant: the batch stops waiting when the first task is done)
GatherFirstDone(st, res) == \E i \in DOMAIN st : st[i] = "done"

\* line 265: with return_exceptions=True gather is done when every task is
GatherDone(st, res) == \A i \in DOMAIN st : st[i] = "done"

\* lines 203-205: the empty list is answered at once
batch_empty ==
    /\ kind = "batch" /\ pc = "start"
    /\ NoUrls(urls)
    /\ pc' = "done"
    /\ responses' = <<>>
    /\ UNCHANGED <<others, request, raised, caught, session, tasks, origin>>

\* lines 213-217, outside the try: get_browser_config() or CrawlerRunConfig()
\* raises and the exception leaves the handler
batch_config_raises ==
    /\ kind = "batch" /\ pc = "start"
    /\ ~NoUrls(urls)
    /\ \E m \in ExcMessages : raised' = m
    /\ pc' = "raised"
    /\ UNCHANGED <<others, request, caught, session, tasks, output>>

\* line 223, outside the try: asyncio.Semaphore(value) raises ValueError
\* for a negative value
batch_semaphore_raises ==
    /\ kind = "batch" /\ pc = "start"
    /\ ~NoUrls(urls)
    /\ MAX_CONCURRENT_SCRAPES < 0
    /\ raised' = "Semaphore initial value must be >= 0"
    /\ pc' = "raised"
    /\ UNCHANGED <<others, request, caught, session, tasks, output>>

\* lines 207-263: configs and semaphore built, __aenter__ awaited
batch_setup ==
    /\ kind = "batch" /\ pc = "start"
    /\ ~NoUrls(urls)
    /\ MAX_CONCURRENT_SCRAPES >= 0
    /\ semaphore' = [value |-> MAX_CONCURRENT_SCRAPES, waiters |-> <<>>]
    /\ pc' = "acquiring"
    /\ UNCHANGED <<others, request, raised, caught, session, status, fetched,
                   results, calls, overtook, output>>

\* line 263 raises: lines 276-279 run and line 287 returns
batch_acquire_fails ==
    /\ kind = "batch" /\ pc = "acquiring"
    /\ \E m \in ExcMessages :
          /\ caught' = m
          /\ responses' = SessionFailure(responses, urls, m)
    /\ origin' = origin \o [i \in Tasks |-> "session"]
    /\ crawler' = "failed"
    /\ pc' = "done"
    /\ UNCHANGED <<others, request, raised, entered, exited, tasks>>

\* lines 263-265: the session is open, one task per URL is handed to gather
batch_acquire_ok ==
    /\ kind = "batch" /\ pc = "acquiring"
    /\ crawler' = "open"
    /\ entered' = entered + 1
    /\ status' = [i \in Tasks |-> "pending"]
    /\ pc' = "gathering"
    /\ UNCHANGED <<others, request, raised, caught, exited, semaphore, fetched,
                   results, calls, overtook, output>>

\* lines 227-231: a task's first step.  gather wraps the coroutines in list
\* order and the loop's ready queue is FIFO, so the tasks take their first
\* step in the order of urls.  acquire() either takes a slot and goes on to
\* call arun, or joins the waiters.
scrape_one_start(i) ==
    /\ kind = "batch" /\ pc = "gathering"
    /\ status[i] = "pending"
    /\ \A j \in Tasks : j < i => status[j] # "pending"
    /\ IF ~Locked(semaphore)
       THEN /\ semaphore' = [semaphore EXCEPT !.value = @ - 1]
            /\ status' = [status EXCEPT ![i] = "inflight"]
            /\ calls' = calls + 1
       ELSE /\ semaphore' = [semaphore EXCEPT !.waiters = Append(@, i)]
            /\ status' = [status EXCEPT ![i] = "waiting"]
            /\ calls' = calls
    /\ UNCHANGED <<others, request, pc, raised, caught, session, fetched, results,
                   overtook, output>>

\* lines 227-231: a woken waiter runs again: it leaves the deque, wakes
\* further waiters while slots are free, and calls arun
scrape_one_resume(i) ==
    /\ kind = "batch" /\ pc = "gathering"
    /\ status[i] = "admitted"
    /\ LET w == WakeWhileFree([semaphore EXCEPT !.waiters = Remove(@, i)], status)
       IN  /\ semaphore' = w.sem
           /\ status' = [w.st EXCEPT ![i] = "inflight"]
    /\ calls' = calls + 1
    /\ UNCHANGED <<others, request, pc, raised, caught, session, fetched, results,
                   overtook, output>>

\* (variant: a fetch that raised is tried again)
FinishedRetry(out) == IF out.raises THEN "pending" ELSE "done"

\* lines 236-259: every branch after arun returns from scrape_one; there
\* is no loop around the call
Finished(out) == "done"

\* lines 231-259: arun returns or raises, the response is built and
\* returned, leaving "async with semaphore" releases the slot
scrape_one_finish(i) ==
    /\ kind = "batch" /\ pc = "gathering"
    /\ status[i] = "inflight"
    /\ \E out \in ClientOutcomes(urls[i]) :
          /\ fetched' = [fetched EXCEPT ![i] = out]
          /\ results' = StoreResult(results, status, i, scrape_one(out))
          /\ LET w == Release(semaphore, status)
             IN  /\ semaphore' = w.sem
                 /\ status' = [w.st EXCEPT ![i] = Finished(out)]
    /\ overtook' = (overtook \/ \E j \in Tasks : j < i /\ status[j] # "done")
    /\ UNCHANGED <<others, request, pc, raised, caught, session, calls, output>>

\* lines 265-275: gather returns, the loop appends one response per result,
\* then the with block is left and __aexit__ awaited
batch_collect ==
    /\ kind = "batch" /\ pc = "gathering"
    /\ GatherDone(status, results)
    /\ responses' = responses \o [i \in Tasks |-> Collected(results[i])]
    /\ origin' = origin \o [i \in Tasks |-> "task"]
    /\ pc' = "releasing"
    /\ UNCHANGED <<others, request, raised, caught, session, tasks>>

\* __aexit__ returns: line 287
batch_release_ok ==
    /\ kind = "batch" /\ pc = "releasing"
    /\ crawler' = "closed"
    /\ exited' = exited + 1
    /\ pc' = "done"
    /\ UNCHANGED <<others, request, raised, caught, entered, tasks, output>>

\* __aexit__ raises: the except of line 276 catches it, lines 278-279
\* append to the responses the loop has filled, line 287 returns
batch_release_fails ==
    /\ kind = "batch" /\ pc = "releasing"
    /\ \E m \in ExcMessages :
          /\ caught' = m
          /\ responses' = SessionFailure(responses, urls, m)
    /\ origin' = origin \o [i \in Tasks |-> "session"]
    /\ crawler' = "failed"
    /\ exited' = exited + 1
    /\ pc' = "done"
    /\ UNCHANGED <<others, request, raised, entered, tasks>>

batch_scrape ==
    \/ batch_empty
    \/ batch_config_raises
    \/ batch_semaphore_raises
    \/ batch_setup
    \/ batch_acquire_fails
    \/ batch_acquire_ok
    \/ \E i \in Tasks : scrape_one_start(i)
    \/ \E i \in Tasks : scrape_one_resume(i)
    \/ \E i \in Tasks : scrape_one_finish(i)
    \/ batch_collect
    \/ batch_release_ok
    \/ batch_release_fails

\* ----------------------------------------------------- POST /scrape
\* (variant: the session is closed by a call after arun, not by a with block)
AfterBodyNoFinally(out) == IF out.raises THEN "except" ELSE "releasing"

\* lines 155-159: "async with" awaits __aexit__ on every way out of its
\* body, whether arun returned or raised
AfterBody(out) == "releasing"

\* lines 147-153 raise inside the try: lines 186-189 return the failure
scrape_config_raises ==
    /\ kind = "scrape" /\ pc = "start"
    /\ \E m \in ExcMessages :
          /\ caught' = m
          /\ responses' = <<FromException(m)>>
    /\ origin' = <<"session">>
    /\ pc' = "done"
    /\ UNCHANGED <<others, request, raised, session, tasks>>

\* lines 143-155: configs built, __aenter__ awaited
scrape_setup ==
    /\ kind = "scrape" /\ pc = "start"
    /\ pc' = "acquiring"
    /\ UNCHANGED <<others, request, raised, caught, session, tasks, output>>

\* line 155 raises: lines 186-189
scrape_acquire_fails ==
    /\ kind = "scrape" /\ pc = "acquiring"
    /\ \E m \in ExcMessages :
          /\ caught' = m
          /\ responses' = <<FromException(m)>>
    /\ origin' = <<"session">>
    /\ crawler' = "failed"
    /\ pc' = "done"
    /\ UNCHANGED <<others, request, raised, entered, exited, tasks>>

\* lines 155-156: the session is open and arun is called
scrape_acquire_ok ==
    /\ kind = "scrape" /\ pc = "acquiring"
    /\ crawler' = "open"
    /\ entered' = entered + 1
    /\ status' = [status EXCEPT ![1] = "inflight"]
    /\ calls' = calls + 1
    /\ pc' = "fetching"
    /\ UNCHANGED <<others, request, raised, caught, exited, semaphore, fetched,
                   results, overtook, output>>

\* lines 156-159: arun returns or raises and the with block is left
scrape_fetch_done ==
    /\ kind = "scrape" /\ pc = "fetching"
    /\ \E out \in ClientOutcomes(urls[1]) :
          /\ fetched' = [fetched EXCEPT ![1] = out]
          /\ IF AfterBody(out) = "releasing"
             THEN /\ pc' = "releasing"
                  /\ UNCHANGED <<caught, output>>
             ELSE /\ pc' = "done"
                  /\ caught' = out.msg
                  /\ responses' = <<FromException(out.msg)>>
                  /\ origin' = <<"task">>
    /\ status' = [status EXCEPT ![1] = "done"]
    /\ UNCHANGED <<others, request, raised, session, semaphore, results, calls,
                   overtook>>

\* __aexit__ returns: the exception of arun, if any, goes on to the except
\* of line 186; else lines 161-185 build the response
scrape_release_ok ==
    /\ kind = "scrape" /\ pc = "releasing"
    /\ crawler' = "closed"
    /\ exited' = exited + 1
    /\ IF fetched[1].raises
       THEN /\ caught' = fetched[1].msg
            /\ responses' = <<FromException(fetched[1].msg)>>
       ELSE /\ caught' = caught
            /\ responses' = <<FromResult(fetched[1])>>
    /\ origin' = <<"task">>
    /\ pc' = "done"
    /\ UNCHANGED <<others, request, raised, entered, tasks>>

\* __aexit__ raises: its exception is the one line 186 catches
scrape_release_fails ==
    /\ kind = "scrape" /\ pc = "releasing"
    /\ \E m \in ExcMessages :
          /\ caught' = m
          /\ responses' = <<FromException(m)>>
    /\ origin' = <<"session">>
    /\ crawler' = "failed"
    /\ exited' = exited + 1
    /\ pc' = "done"
    /\ UNCHANGED <<others, request, raised, entered, tasks>>

scrape_url ==
    \/ scrape_config_raises
    \/ scrape_setup
    \/ scrape_acquire_fails
    \/ scrape_acquire_ok
    \/ scrape_fetch_done
    \/ scrape_release_ok
    \/ scrape_release_fails

\* ------------------------------------------------------ specification
Next == batch_scrape \/ scrape_url

Spec == Init /\ [][Next]_vars

\* the event loop runs every ready coroutine, and every awaited call of the
\* environment (__aenter__, arun, __aexit__) eventually returns or raises
Fairness == WF_vars(batch_scrape) /\ WF_vars(scrape_url)

LiveSpec == Spec /\ Fairness

\* ------------------------------------------------------------- typing
Statuses == {"new", "pending", "waiting", "admitted", "inflight", "done"}

TypeOK ==
    /\ kind \in {"batch", "scrape"}
    /\ N \in 0..MaxUrls
    /\ pc \in {"start", "acquiring", "gathering", "fetching", "releasing",
               "done", "raised"}
    /\ crawler \in {"none", "open", "closed", "failed"}
    /\ entered \in 0..1 /\ exited \in 0..1
    /\ status \in [Tasks -> Statuses]
    /\ calls \in 0..N
    /\ Len(origin) = Len(responses)

\* ------------------------------------------------------------- claims
\* the response the handler owes to what the client did for one URL
Owed(out) == IF out.raises THEN FromException(out.msg) ELSE FromResult(out)

ClientFailed(out) == out.raises \/ ~out.success

\* tasks whose arun call is outstanding
InFlight == {i \in Tasks : status[i] = "inflight"}

\* the batch has gathered its tasks
Gathered == kind = "batch" /\ entered = 1 /\ pc \in {"releasing", "done"}

\* C1: whenever batch_scrape returns for a non-empty urls list, the results
\* list has exactly len(urls) entries.
C1_ResultsLength ==
    (kind = "batch" /\ pc = "done" /\ urls # <<>>) => Len(responses) = N

\* C2: for every completion order of the tasks, results[i] is the outcome
\* of the fetch of urls[i]: the page it carries is the page of urls[i] and
\* it is the response owed to what arun did for urls[i].
C2_InputOrder ==
    Gathered =>
        \A i \in Tasks :
            /\ Len(responses) >= i
            /\ responses[i] = Owed(fetched[i])
            /\ responses[i].success => responses[i].html = "html:" \o urls[i]

\* C2 happens: a batch returned whose tasks finished out of input order
C2_Witness ==
    /\ Gathered /\ pc = "done" /\ overtook /\ N >= 3
    /\ \A i \in Tasks : responses[i].success

\* C3: within a batch at most MAX_CONCURRENT_SCRAPES arun calls are
\* outstanding; with a limit of 2 and four URLs the third and fourth fetch
\* do not begin before one of the first two has completed.
C3_BoundedConcurrency ==
    kind = "batch" =>
        /\ InFlight # {} => Cardinality(InFlight) <= MAX_CONCURRENT_SCRAPES
        /\ (MAX_CONCURRENT_SCRAPES = 2 /\ N = 4
              /\ \E i \in {3, 4} : status[i] \in {"inflight", "done"})
           => \E j \in {1, 2} : status[j] = "done"

\* C3 happens: limit 2, four URLs, two calls outstanding and two tasks waiting
C3_Witness ==
    /\ kind = "batch" /\ MAX_CONCURRENT_SCRAPES = 2 /\ N = 4
    /\ status = <<"inflight", "inflight", "waiting", "waiting">>

\* C4: when the client fails or raises for one URL, every sibling task has
\* reached its terminal state when the batch is gathered, and each sibling's
\* outcome is the one its own fetch earns.
C4_FailureIsolation ==
    Gathered =>
        \A j \in Tasks : ClientFailed(fetched[j]) =>
            \A i \in Tasks \ {j} :
                /\ status[i] = "done"
                /\ fetched[i] \in ClientOutcomes(urls[i])
                /\ responses[i] = Collected(results[i])
                /\ responses[i].success = ~ClientFailed(fetched[i])
                /\ ~responses[i].success =>
                      responses[i].error \in
                         {fetched[i].msg, fetched[i].error_message, "Scrape failed"}

\* C4 happens: [A(ok), B(fails), C(ok)] returned [ok, failed, ok]
C4_Witness ==
    /\ Gathered /\ pc = "done" /\ N = 3
    /\ ~ClientFailed(fetched[1])
    /\ ~fetched[2].raises /\ ~fetched[2].success
    /\ ~ClientFailed(fetched[3])
    /\ Len(responses) = 3
    /\ responses[1].success /\ ~responses[2].success /\ responses[3].success

\* C5: when arun raises for a URL, that URL's outcome has success=false and
\* a non-empty error message, nothing leaves the handler, and the siblings
\* are done.
C5_RaisedFetchFails ==
    /\ Gathered =>
          \A i \in Tasks : fetched[i].raises =>
              /\ ~responses[i].success
              /\ responses[i].error \notin {None, ""}
              /\ \A j \in Tasks : status[j] = "done"
              /\ raised = None
    /\ (kind = "scrape" /\ pc = "done" /\ fetched[1].raises
          /\ crawler = "closed")
       => /\ ~responses[1].success
          /\ responses[1].error \notin {None, ""}
          /\ raised = None

\* C6: the session is acquired at most once per request and, once acquired,
\* its __aexit__ is awaited exactly once on every way out of the with block;
\* no handler ends with an acquired session that was not released.
C6_SessionPaired ==
    /\ entered <= 1
    /\ exited <= entered
    /\ pc \in {"done", "raised"} => exited = entered /\ crawler # "open"
    /\ crawler = "open" <=> (entered = 1 /\ exited = 0)

\* C6 happens: a single-URL request whose fetch raised has returned
C6_Witness ==
    /\ kind = "scrape" /\ pc = "done"
    /\ fetched[1].raises /\ entered = 1 /\ exited = 1

\* C7: if session acquisition fails in batch_scrape, no fetch call is made
\* and every URL gets a success=false outcome whose error is the message of
\* the acquisition error.
C7_AcquireFailure ==
    (kind = "batch" /\ crawler = "failed" /\ entered = 0) =>
        /\ calls = 0
        /\ \A i \in Tasks : status[i] = "new"
        /\ pc = "done"
        /\ Len(responses) = N
        /\ \A i \in Tasks : ~responses[i].success /\ responses[i].error = caught

\* C7 happens: a batch of several URLs whose acquisition failed with a message
C7_Witness ==
    /\ kind = "batch" /\ crawler = "failed" /\ entered = 0
    /\ N >= 2 /\ caught = "boom" /\ pc = "done"

\* C8: for an empty urls list batch_scrape returns an empty results list at
\* once: no session, no task, no fetch call.
C8_EmptyBatch ==
    (kind = "batch" /\ urls = <<>>) =>
        /\ pc \in {"start", "done"}
        /\ responses = <<>>
        /\ crawler = "none" /\ entered = 0
        /\ calls = 0
        /\ semaphore = [value |-> 0, waiters |-> <<>>]
        /\ raised = None

\* C8 happens: the empty batch has returned
C8_Witness == kind = "batch" /\ urls = <<>> /\ pc = "done"

\* C9: if the session fails after it was acquired, the result keeps every
\* outcome a task produced and gives the session-failure outcome only to
\* URLs without an outcome; no URL gets both.
C9_SessionFailureOnlyUnresolved ==
    (kind = "batch" /\ pc = "done" /\ entered = 1) =>
        /\ \A i \in Tasks : status[i] = "done" =>
              Len(responses) >= i /\ responses[i] = Collected(results[i])
        /\ Cardinality({k \in DOMAIN origin : origin[k] = "session"})
              = Cardinality({i \in Tasks : status[i] # "done"})

\* C10: no failure leaves scrape_url or batch_scrape as an unhandled
\* exception: the handler, when it ends, has returned a response.
C10_NoUnhandled == pc # "raised" /\ raised = None

\* the status of the i-th task, "none" beyond the end of urls
StatusOf(i) == IF i \in Tasks THEN status[i] ELSE "none"

\* C11: with a positive limit, under fair scheduling and with every client
\* call returning or raising, every task that waits for a slot is admitted,
\* every task reaches its terminal state and batch_scrape returns.
C11_BatchLiveness ==
    /\ \A i \in 1..MaxUrls :
          (kind = "batch" /\ MAX_CONCURRENT_SCRAPES > 0
              /\ StatusOf(i) = "waiting")
          ~> (StatusOf(i) \in {"admitted", "inflight", "done"})
    /\ \A i \in 1..MaxUrls :
          (kind = "batch" /\ MAX_CONCURRENT_SCRAPES > 0
              /\ StatusOf(i) \in {"pending", "waiting", "admitted", "inflight"})
          ~> (StatusOf(i) = "done")
    /\ (kind = "batch" /\ MAX_CONCURRENT_SCRAPES > 0
          /\ pc \in {"acquiring", "gathering", "releasing"})
       ~> (pc = "done")

\* C11 happens: with a positive limit a task that had to wait was woken
\* while a later one still waits
C11_Witness ==
    /\ kind = "batch" /\ MAX_CONCURRENT_SCRAPES > 0
    /\ \E i, j \in Tasks : status[i] = "admitted" /\ status[j] = "waiting"

\* what the environment did to the session of the request
AcquireFailed == crawler = "failed" /\ entered = 0
ReleaseFailed == crawler = "failed" /\ entered = 1

\* the response scrape_url gives for what the session and the client did
SingleAnswer ==
    IF AcquireFailed \/ ReleaseFailed THEN FromException(caught)
    ELSE Owed(fetched[1])

\* scrape_url returns SingleAnswer in every run that got to the session
ScrapeReturnsSingleAnswer ==
    (kind = "scrape" /\ pc = "done" /\ crawler # "none")
        => responses = <<SingleAnswer>>

\* C12: for the same behaviour of session acquisition, fetch and session
\* release, batch_scrape([url]).results is the one response scrape_url(url)
\* returns.
C12_SingleIsBatchOfOne ==
    (pc = "done" /\ N = 1 /\ crawler # "none") => responses = <<SingleAnswer>>

\* an outcome is well-formed
WellFormed(r) ==
    \/ r.success /\ r.error = None
    \/ /\ ~r.success
       /\ r.error \notin {None, ""}
       /\ r.markdown = None /\ r.html = None /\ r.title = None

\* C13: every outcome scrape_url returns or a batch result holds is
\* well-formed: success with no error, or failure with a non-empty error
\* and no markdown, html or title.
C13_WellFormedOutcomes ==
    \A k \in DOMAIN responses : WellFormed(responses[k])

\* the response at position i is the one built from the fetch of urls[i]
BuiltFromFetch ==
    \/ Gathered
    \/ kind = "scrape" /\ pc = "done" /\ crawler = "closed"

\* the client returned a result with success=False for urls[i]
ReportedFailure(i) ==
    status[i] = "done" /\ ~fetched[i].raises /\ ~fetched[i].success

\* C14 as stated: a result with success=false is passed through unchanged:
\* the error is the client's error message whatever it is, and the other
\* fields are the client's.
C14_PassThroughUnchanged ==
    BuiltFromFetch =>
        \A i \in Tasks : ReportedFailure(i) =>
            /\ ~responses[i].success
            /\ responses[i].error = fetched[i].error_message
            /\ responses[i].html = fetched[i].html

\* C14 as amended: the outcome built from a result with success=false has
\* success=false, the client's error message when that is a non-empty
\* string and "Scrape failed" when it is None or empty, and no markdown,
\* html or title.
C14_FailureOutcome ==
    BuiltFromFetch =>
        \A i \in Tasks : ReportedFailure(i) =>
            /\ ~responses[i].success
            /\ responses[i].error =
                  (IF fetched[i].error_message \in {None, ""}
                   THEN "Scrape failed" ELSE fetched[i].error_message)
            /\ responses[i].markdown = None
            /\ responses[i].html = None
            /\ responses[i].title = None

\* C14 happens: one URL failed with a message and a page, another failed
\* without a message
C14_Witness ==
    /\ Gathered /\ pc = "done"
    /\ \E i, j \in Tasks :
          /\ ReportedFailure(i) /\ fetched[i].error_message = ClientError
          /\ fetched[i].html # None /\ responses[i].error = ClientError
          /\ ReportedFailure(j) /\ fetched[j].error_message = None
          /\ responses[j].error = "Scrape failed"

\* the results list as a function of what the client answered for each URL
\* and of what the session did, with no reference to the schedule
BatchAnswer ==
    IF AcquireFailed THEN [i \in Tasks |-> FromException(caught)]
    ELSE [i \in Tasks |-> Owed(fetched[i])]
         \o (IF ReleaseFailed THEN [i \in Tasks |-> FromException(caught)]
             ELSE <<>>)

\* C15: the results of a batch depend only on the request and on what the
\* client and the session do for it, not on the interleaving or the
\* completion order of the tasks: two runs with the same client answers
\* return the same list, in order and content.
C15_ScheduleIndependent ==
    (kind = "batch" /\ pc = "done" /\ urls # <<>>) => responses = BatchAnswer

\* C15 happens: a batch returned after its tasks finished out of input
\* order with different kinds of answers
C15_Witness ==
    /\ kind = "batch" /\ pc = "done" /\ overtook /\ crawler = "closed"
    /\ \E i, j \in Tasks :
          i < j /\ fetched[i].raises /\ ~ClientFailed(fetched[j])

\* the steps of one task: "new" and "pending" and "waiting" are PENDING
\* (no slot yet), "admitted" is ADMITTED, "inflight" is IN_FLIGHT, "done" is
\* SUCCEEDED or FAILED.  A task that finds a free slot is admitted and calls
\* arun in one step; scrape_url has no admission and calls arun at once.
TaskSteps ==
    { <<"new", "pending">>, <<"new", "inflight">>, <<"pending", "waiting">>,
      <<"pending", "inflight">>, <<"waiting", "admitted">>,
      <<"admitted", "inflight">>, <<"inflight", "done">> }

Called == {i \in Tasks : status[i] \in {"inflight", "done"}}

\* C16: a task only moves forward through pending, admitted, in flight and
\* its terminal state; a terminal task and its outcome never change; arun
\* is called at most once per input position, exactly once per position
\* when the session was acquired and the handler returned: no retry.
C16_TaskLifecycle ==
    /\ [][\A i \in Tasks :
            /\ status'[i] # status[i] => <<status[i], status'[i]>> \in TaskSteps
            /\ status[i] = "done" =>
                  /\ status'[i] = "done"
                  /\ fetched'[i] = fetched[i]
            /\ (status[i] # "inflight" /\ status'[i] = "inflight")
                  => calls' = calls + 1]_vars
    /\ [](calls = Cardinality(Called))
    /\ []((pc = "done" /\ entered = 1) => (calls = N /\ Called = Tasks))
    /\ []((pc = "done" /\ entered = 0) => calls = 0)

\* C16 happens: a batch returned in which a fetch failed and one raised,
\* each URL fetched once
C16_Witness ==
    /\ kind = "batch" /\ pc = "done" /\ entered = 1 /\ N >= 2 /\ calls = N
    /\ \E i, j \in Tasks :
          fetched[i].raises /\ ~fetched[j].raises /\ ~fetched[j].success

\* a is queued before b in the semaphore's deque
QueuedBefore(a, b) ==
    \E k, l \in 1..Len(semaphore.waiters) :
        k < l /\ semaphore.waiters[k] = a /\ semaphore.waiters[l] = b

\* C17: admission is first come, first served: a task that began to wait
\* after task a (or that had not yet asked for a slot while a was waiting)
\* is never given a slot while a still waits.
C17_FifoAdmission ==
    /\ [][\A a, b \in Tasks :
            status[a] = "waiting" /\ status'[a] = "waiting" =>
               /\ (status[b] = "waiting" /\ QueuedBefore(a, b))
                     => status'[b] = "waiting"
               /\ status[b] \in {"new", "pending"}
                     => status'[b] \in {"new", "pending", "waiting"}]_vars
    /\ [](\A a, b \in Tasks :
            (QueuedBefore(a, b) /\ status[b] = "admitted")
               => status[a] = "admitted")

\* C17 happens: of two queued tasks the first was woken and the second waits
C17_Witness ==
    /\ kind = "batch" /\ Len(semaphore.waiters) >= 2
    /\ status[semaphore.waiters[1]] = "admitted"
    /\ status[semaphore.waiters[2]] = "waiting"

\* tasks that hold a slot of the semaphore: woken or calling arun
Holding == {i \in Tasks : status[i] \in {"admitted", "inflight"}}

\* the batch has built its semaphore
HasSemaphore ==
    kind = "batch" /\ urls # <<>> /\ pc \notin {"start", "raised"}

\* C19: in every state of a batch, free slots plus tasks holding a slot is
\* MAX_CONCURRENT_SCRAPES; a task gives its slot back however its fetch
\* ends, so all slots are free once the batch has gathered its tasks.
C19_SlotAccounting ==
    HasSemaphore =>
        /\ semaphore.value >= 0
        /\ semaphore.value + Cardinality(Holding) = MAX_CONCURRENT_SCRAPES
        /\ Gathered =>
              /\ semaphore.value = MAX_CONCURRENT_SCRAPES
              /\ semaphore.waiters = <<>>

\* C19 happens: a batch was gathered after fetches that succeeded, failed
\* and raised
C19_Witness ==
    /\ Gathered /\ N >= 3
    /\ semaphore.value = MAX_CONCURRENT_SCRAPES
    /\ \E i, j, k \in Tasks :
          /\ fetched[i].raises
          /\ ~fetched[j].raises /\ ~fetched[j].success
          /\ ~ClientFailed(fetched[k])

\* C20: every arun call lies within the life of the request's session: a
\* call starts only on an open session that __aenter__ returned, and
\* __aexit__ is not begun while a task is pending, waiting, admitted or in
\* flight.
C20_FetchWithinSession ==
    /\ [][calls' # calls => (entered' = 1 /\ exited' = 0 /\ crawler' = "open"
                               /\ pc' \in {"gathering", "fetching"})]_vars
    /\ []((\E i \in Tasks : status[i] \in {"pending", "waiting", "admitted",
                                           "inflight"})
            => (crawler = "open" /\ entered = 1 /\ exited = 0
                  /\ pc \in {"gathering", "fetching"}))
    /\ []((pc = "releasing" \/ exited > 0)
            => \A i \in Tasks : status[i] = "done")
    /\ [](calls > 0 => entered = 1)

\* C20 happens: the session is being released after every task of a batch
\* of several URLs is done
C20_Witness ==
    /\ kind = "batch" /\ pc = "releasing" /\ N >= 2 /\ calls = N
    /\ crawler = "open" /\ exited = 0

\* ------------------------------------- several requests in one process
\* ConcSpec: the process serves NumRequests requests whose handlers
\* interleave at their awaits.  Each invocation of a handler has its own
\* local variables: crawler (lines 155, 263), semaphore (line 223) and the
\* tasks of its gather (line 264).  What a fetch returns plays no part here.

\* requests the process serves at once
NumRequests == 2

\* longest urls list of one of these requests
ConcUrls == 2

\* the limits the process is run with in ConcSpec
ConcLimits == {1, 2}

Requests == 1..NumRequests

\* (variant: the process keeps one crawler object that every request uses)
SharedSession(ss, r) == 1

\* lines 155 and 263: AsyncWebCrawler(config=browser_config) builds a new
\* object in every invocation; objects are numbered as they are built
NewSession(ss, r) == Len(ss) + 1

\* the locals of an invocation that has not begun
IdleHandler(k, n) ==
    [kind |-> k, pc |-> "idle", crawler |-> 0,
     semaphore |-> [value |-> 0, waiters |-> <<>>],
     status |-> [i \in 1..n |-> "new"],
     used |-> [i \in 1..n |-> 0]]

ConcInit ==
    /\ kind = "batch"
    /\ urls = <<>>
    /\ MAX_CONCURRENT_SCRAPES \in ConcLimits
    /\ handlers \in [Requests ->
          {IdleHandler("scrape", 1)}
             \cup {IdleHandler("batch", n) : n \in 1..ConcUrls}]
    /\ sessions = <<>>
    /\ pc = "start"
    /\ raised = None
    /\ caught = None
    /\ crawler = "none"
    /\ entered = 0
    /\ exited = 0
    /\ semaphore = [value |-> 0, waiters |-> <<>>]
    /\ status = <<>>
    /\ fetched = <<>>
    /\ results = <<>>
    /\ calls = 0
    /\ overtook = FALSE
    /\ responses = <<>>
    /\ origin = <<>>

\* lines 143-155 and 207-263: the request arrives; the handler builds its
\* semaphore (batch) and its crawler object and awaits __aenter__
conc_begin(r) ==
    /\ handlers[r].pc = "idle"
    /\ LET id == NewSession(sessions, r)
       IN  /\ sessions' = IF id > Len(sessions)
                          THEN Append(sessions, [owner |-> r, state |-> "new"])
                          ELSE sessions
           /\ handlers' = [handlers EXCEPT
                 ![r].pc = "acquiring",
                 ![r].crawler = id,
                 ![r].semaphore =
                     IF handlers[r].kind = "batch"
                     THEN [value |-> MAX_CONCURRENT_SCRAPES, waiters |-> <<>>]
                     ELSE @]
    /\ UNCHANGED one

\* lines 155 and 263 raise: the handler returns its failure response
conc_acquire_fails(r) ==
    /\ handlers[r].pc = "acquiring"
    /\ sessions' = [sessions EXCEPT ![handlers[r].crawler].state = "failed"]
    /\ handlers' = [handlers EXCEPT ![r].pc = "done"]
    /\ UNCHANGED one

\* lines 155-156 and 263-265: the session is open; scrape_url calls arun
\* on it, batch_scrape hands its tasks to gather
conc_acquire_ok(r) ==
    /\ handlers[r].pc = "acquiring"
    /\ sessions' = [sessions EXCEPT ![handlers[r].crawler].state = "open"]
    /\ handlers' = [handlers EXCEPT
          ![r].pc = IF handlers[r].kind = "batch" THEN "gathering" ELSE "fetching",
          ![r].status = IF handlers[r].kind = "batch"
                        THEN [i \in DOMAIN @ |-> "pending"]
                        ELSE [i \in DOMAIN @ |-> "inflight"],
          ![r].used = IF handlers[r].kind = "batch" THEN @
                      ELSE [i \in DOMAIN @ |-> handlers[r].crawler]]
    /\ UNCHANGED one

\* lines 227-231: first step of a task of request r, on r's semaphore; the
\* arun call goes to the crawler the task was given
conc_one_start(r, i) ==
    /\ handlers[r].pc = "gathering"
    /\ handlers[r].status[i] = "pending"
    /\ \A j \in 1..(i - 1) : handlers[r].status[j] # "pending"
    /\ IF ~Locked(handlers[r].semaphore)
       THEN handlers' = [handlers EXCEPT
               ![r].semaphore.value = @ - 1,
               ![r].status[i] = "inflight",
               ![r].used[i] = handlers[r].crawler]
       ELSE handlers' = [handlers EXCEPT
               ![r].semaphore.waiters = Append(@, i),
               ![r].status[i] = "waiting"]
    /\ UNCHANGED <<one, sessions>>

\* lines 227-231: a woken task of request r runs again and calls arun
conc_one_resume(r, i) ==
    /\ handlers[r].pc = "gathering"
    /\ handlers[r].status[i] = "admitted"
    /\ LET w == WakeWhileFree([handlers[r].semaphore EXCEPT
                                  !.waiters = Remove(@, i)],
                              handlers[r].status)
       IN  handlers' = [handlers EXCEPT
               ![r].semaphore = w.sem,
               ![r].status = [w.st EXCEPT ![i] = "inflight"],
               ![r].used[i] = handlers[r].crawler]
    /\ UNCHANGED <<one, sessions>>

\* lines 231-259: the arun call of a task of request r ends, the slot of
\* r's semaphore is released
conc_one_finish(r, i) ==
    /\ handlers[r].pc = "gathering"
    /\ handlers[r].status[i] = "inflight"
    /\ LET w == Release(handlers[r].semaphore, handlers[r].status)
       IN  handlers' = [handlers EXCEPT
               ![r].semaphore = w.sem,
               ![r].status = [w.st EXCEPT ![i] = "done"]]
    /\ UNCHANGED <<one, sessions>>

\* lines 265-275: gather of request r returns; __aexit__ is awaited
conc_collect(r) ==
    /\ handlers[r].pc = "gathering"
    /\ GatherDone(handlers[r].status, handlers[r].status)
    /\ handlers' = [handlers EXCEPT ![r].pc = "releasing"]
    /\ UNCHANGED <<one, sessions>>

\* lines 156-159: arun of the single-URL request ends; __aexit__ is awaited
conc_fetch_done(r) ==
    /\ handlers[r].pc = "fetching"
    /\ handlers' = [handlers EXCEPT
          ![r].pc = "releasing",
          ![r].status = [i \in DOMAIN @ |-> "done"]]
    /\ UNCHANGED <<one, sessions>>

\* __aexit__ of r's crawler returns or raises; the handler returns
conc_release(r) ==
    /\ handlers[r].pc = "releasing"
    /\ sessions' = [sessions EXCEPT ![handlers[r].crawler].state = "closed"]
    /\ handlers' = [handlers EXCEPT ![r].pc = "done"]
    /\ UNCHANGED one

ConcNext ==
    \E r \in Requests :
        \/ conc_begin(r)
        \/ conc_acquire_fails(r)
        \/ conc_acquire_ok(r)
        \/ \E i \in DOMAIN handlers[r].status : conc_one_start(r, i)
        \/ \E i \in DOMAIN handlers[r].status : conc_one_resume(r, i)
        \/ \E i \in DOMAIN handlers[r].status : conc_one_finish(r, i)
        \/ conc_collect(r)
        \/ conc_fetch_done(r)
        \/ conc_release(r)

ConcSpec == ConcInit /\ [][ConcNext]_vars

\* tasks of request r whose arun call is outstanding
InFlightOf(r) ==
    {i \in DOMAIN handlers[r].status : handlers[r].status[i] = "inflight"}

\* tasks of request r that hold a slot of r's semaphore
HoldingOf(r) ==
    {i \in DOMAIN handlers[r].status :
        handlers[r].status[i] \in {"admitted", "inflight"}}

\* C18: sessions and admission counters are per request: each request has
\* its own session, every arun call of a request goes to the session that
\* request opened, while it is open, no session is used once its request
\* has finished, and each request's semaphore counts its own tasks only.
C18_PerRequestSessions ==
    \A r \in Requests :
        /\ handlers[r].crawler # 0 =>
              /\ handlers[r].crawler \in DOMAIN sessions
              /\ sessions[handlers[r].crawler].owner = r
        /\ \A q \in Requests \ {r} :
              handlers[r].crawler # 0 => handlers[q].crawler # handlers[r].crawler
        /\ \A i \in DOMAIN handlers[r].used :
              /\ handlers[r].used[i] # 0 =>
                    /\ handlers[r].used[i] = handlers[r].crawler
                    /\ sessions[handlers[r].used[i]].owner = r
              /\ handlers[r].status[i] = "inflight" =>
                    /\ handlers[r].used[i] # 0
                    /\ sessions[handlers[r].used[i]].state = "open"
        /\ handlers[r].pc = "done" =>
              /\ sessions[handlers[r].crawler].state \in {"closed", "failed"}
              /\ \A q \in Requests : \A i \in InFlightOf(q) :
                    handlers[q].used[i] # handlers[r].crawler
        /\ (handlers[r].kind = "batch"
              /\ handlers[r].pc \in {"gathering", "releasing", "done"}
              /\ sessions[handlers[r].crawler].state # "failed") =>
              /\ Cardinality(InFlightOf(r)) <= MAX_CONCURRENT_SCRAPES
              /\ handlers[r].semaphore.value + Cardinality(HoldingOf(r))
                    = MAX_CONCURRENT_SCRAPES

\* C18 happens: a request has returned and closed its session while a
\* request that built its crawler later has a call outstanding on its own
\* open session
C18_Witness ==
    \E r, q \in Requests :
        /\ handlers[r].pc = "done"
        /\ sessions[handlers[r].crawler].state = "closed"
        /\ handlers[q].crawler > handlers[r].crawler
        /\ InFlightOf(q) # {}
        /\ sessions[handlers[q].crawler].state = "open"

====
